---- MODULE Spec2Model ----
(***************************************************************************)
(* Model of gemdn: the streaming client of src/main.rs and the response    *)
(* data model of src/lib.rs.                                               *)
(*                                                                         *)
(* A serde_json::Value is a tagged record; the derived Deserialize and     *)
(* Serialize implementations of lib.rs are operators over such values.     *)
(* The processing loop of main, the test helper parse_chunks and a         *)
(* decode/serialize round trip of GenerateContentResponseChunk are the     *)
(* three programs that run over the collected array.                       *)
(***************************************************************************)
EXTENDS Integers, Sequences, FiniteSets, TLC

(***************************************************************************)
(* serde_json::Value                                                       *)
(***************************************************************************)
JNull == [t |-> "null"]
JBool(b) == [t |-> "bool", b |-> b]
JNum(n) == [t |-> "num", n |-> n]
JStr(s) == [t |-> "str", s |-> s]
JArr(a) == [t |-> "arr", a |-> a]
JObj(o) == [t |-> "obj", o |-> o]

IsObject(j) == j.t = "obj"
Keys(j) == DOMAIN j.o
Has(j, k) == IsObject(j) /\ k \in Keys(j)

(***************************************************************************)
(* Result / Option                                                         *)
(***************************************************************************)
Ok(v) == [ok |-> TRUE, v |-> v]
Fail == [ok |-> FALSE]
None == [some |-> FALSE]
Some(v) == [some |-> TRUE, v |-> v]

\* The range of i32.  A number of the model is an integer of at most 32
\* bits, so every non-negative one is within u32.
I32Max == 2147483647
I32Min == (-I32Max) - 1

(***************************************************************************)
(* Deserialize: primitives and containers                                  *)
(***************************************************************************)
DeString(j) == IF j.t = "str" THEN Ok(j.s) ELSE Fail
DeI32(j) == IF j.t = "num" /\ j.n >= I32Min /\ j.n <= I32Max THEN Ok(j.n) ELSE Fail
DeU32(j) == IF j.t = "num" /\ j.n >= 0 THEN Ok(j.n) ELSE Fail

\* The decoded fields of a struct, or the decoded elements of a sequence:
\* the whole decodes if and only if every one of them does.
Collect(rs) ==
    IF \A k \in DOMAIN rs : rs[k].ok THEN Ok([k \in DOMAIN rs |-> rs[k].v]) ELSE Fail

\* Vec<T>: a JSON array every element of which decodes, in order.
DeVec(De(_), j) ==
    IF j.t = "arr" THEN Collect([k \in 1..Len(j.a) |-> De(j.a[k])]) ELSE Fail

\* A required field of a struct: the key must be present and decode.
Req(De(_), j, k) == IF Has(j, k) THEN De(j.o[k]) ELSE Fail

\* An Option<T> field: a missing key or null is None, anything else must decode.
MapSome(r) == IF r.ok THEN Ok(Some(r.v)) ELSE Fail
Opt(De(_), j, k) ==
    IF ~Has(j, k) \/ j.o[k].t = "null" THEN Ok(None) ELSE MapSome(De(j.o[k]))

\* HashMap<String, String>
DeStringMap(j) ==
    IF IsObject(j) THEN Collect([k \in Keys(j) |-> DeString(j.o[k])]) ELSE Fail

(***************************************************************************)
(* Deserialize: lib.rs.  Keys that a struct does not declare are ignored.  *)
(***************************************************************************)
\* enum Part, externally tagged, variants renamed to camelCase; the fields
\* of the struct variants keep their snake_case names.
DeText(j) == Collect([variant |-> Ok("Text"), text |-> DeString(j)])

DeInlineData(j) ==
    IF ~IsObject(j) THEN Fail
    ELSE Collect([variant |-> Ok("InlineData"),
                  mime_type |-> Req(DeString, j, "mime_type"),
                  data |-> Req(DeString, j, "data")])

DeFileData(j) ==
    IF ~IsObject(j) THEN Fail
    ELSE Collect([variant |-> Ok("FileData"),
                  mime_type |-> Req(DeString, j, "mime_type"),
                  file_uri |-> Req(DeString, j, "file_uri")])

DeFunctionCall(j) ==
    IF ~IsObject(j) THEN Fail
    ELSE Collect([variant |-> Ok("FunctionCall"),
                  name |-> Req(DeString, j, "name"),
                  args |-> Req(DeStringMap, j, "args")])

\* A part is an object with exactly one key, the name of the variant.
DeVariant(tag, j) ==
    CASE tag = "text" -> DeText(j)
      [] tag = "inlineData" -> DeInlineData(j)
      [] tag = "fileData" -> DeFileData(j)
      [] tag = "functionCall" -> DeFunctionCall(j)
      [] OTHER -> Fail

\* DePart reading `text` whenever the key is there, whatever else the part
\* carries, as a struct of optional fields would
DePart_TextFirst(j) ==
    IF ~IsObject(j) THEN Fail
    ELSE IF "text" \in Keys(j) THEN DeText(j.o["text"])
    ELSE IF Cardinality(Keys(j)) # 1 THEN Fail
    ELSE DeVariant(CHOOSE k \in Keys(j) : TRUE, j.o[CHOOSE k \in Keys(j) : TRUE])

DePart(j) ==
    IF ~IsObject(j) \/ Cardinality(Keys(j)) # 1 THEN Fail
    ELSE DeVariant(CHOOSE k \in Keys(j) : TRUE, j.o[CHOOSE k \in Keys(j) : TRUE])

\* DeParts refusing an empty list
DeParts_NonEmpty(j) == IF j = JArr(<<>>) THEN Fail ELSE DeVec(DePart, j)

DeParts(j) == DeVec(DePart, j)

\* DeContent with `role: Option<String>`, as RequestContent has it
DeContent_RoleOptional(j) ==
    IF ~IsObject(j) THEN Fail
    ELSE Collect([role |-> Opt(DeString, j, "role"),
                  parts |-> Req(DeParts, j, "parts")])

DeContent(j) ==
    IF ~IsObject(j) THEN Fail
    ELSE Collect([role |-> Req(DeString, j, "role"),
                  parts |-> Req(DeParts, j, "parts")])

DeSafetyRating(j) ==
    IF ~IsObject(j) THEN Fail
    ELSE Collect([category |-> Req(DeString, j, "category"),
                  probability |-> Req(DeString, j, "probability")])

DeSafetyRatings(j) == DeVec(DeSafetyRating, j)

DeCitation(j) ==
    IF ~IsObject(j) THEN Fail
    ELSE Collect([end_index |-> Req(DeU32, j, "endIndex"),
                  license |-> Req(DeString, j, "license"),
                  start_index |-> Req(DeU32, j, "startIndex"),
                  uri |-> Req(DeString, j, "uri")])

DeCitations(j) == DeVec(DeCitation, j)

DeCitationMetadata(j) ==
    IF ~IsObject(j) THEN Fail
    ELSE Collect([citation_sources |-> Req(DeCitations, j, "citationSources")])

\* DeUsageMetadata with every count an Option<i32>
DeUsageMetadata_AllOptional(j) ==
    IF ~IsObject(j) THEN Fail
    ELSE Collect([candidates_token_count |-> Opt(DeI32, j, "candidatesTokenCount"),
                  prompt_token_count |-> Opt(DeI32, j, "promptTokenCount"),
                  total_token_count |-> Opt(DeI32, j, "totalTokenCount")])

DeUsageMetadata(j) ==
    IF ~IsObject(j) THEN Fail
    ELSE Collect([candidates_token_count |-> Opt(DeI32, j, "candidatesTokenCount"),
                  prompt_token_count |-> Req(DeI32, j, "promptTokenCount"),
                  total_token_count |-> Req(DeI32, j, "totalTokenCount")])

\* DeCandidate with `content: Content` in place of `content: Option<Content>`
DeCandidate_ContentRequired(j) ==
    IF ~IsObject(j) THEN Fail
    ELSE Collect([content |-> MapSome(Req(DeContent, j, "content")),
                  citation_metadata |-> Opt(DeCitationMetadata, j, "citationMetadata"),
                  safety_ratings |-> Opt(DeSafetyRatings, j, "safetyRatings"),
                  finish_reason |-> Opt(DeString, j, "finishReason")])

DeCandidate(j) ==
    IF ~IsObject(j) THEN Fail
    ELSE Collect([content |-> Opt(DeContent, j, "content"),
                  citation_metadata |-> Opt(DeCitationMetadata, j, "citationMetadata"),
                  safety_ratings |-> Opt(DeSafetyRatings, j, "safetyRatings"),
                  finish_reason |-> Opt(DeString, j, "finishReason")])

DeCandidates(j) == DeVec(DeCandidate, j)

\* DeGenerateContentResponseChunk with #[serde(deny_unknown_fields)]
DeGenerateContentResponseChunk_DenyUnknown(j) ==
    IF ~IsObject(j) THEN Fail
    ELSE IF ~(Keys(j) \subseteq {"candidates", "usageMetadata"}) THEN Fail
    ELSE Collect([candidates |-> Req(DeCandidates, j, "candidates"),
                  usage_metadata |-> Opt(DeUsageMetadata, j, "usageMetadata")])

DeGenerateContentResponseChunk(j) ==
    IF ~IsObject(j) THEN Fail
    ELSE Collect([candidates |-> Req(DeCandidates, j, "candidates"),
                  usage_metadata |-> Opt(DeUsageMetadata, j, "usageMetadata")])

DeGenerateContentResponseErrorDetails(j) ==
    IF ~IsObject(j) THEN Fail
    ELSE Collect([code |-> Req(DeI32, j, "code"),
                  message |-> Req(DeString, j, "message"),
                  status |-> Req(DeString, j, "status")])

DeGenerateContentResponseError(j) ==
    IF ~IsObject(j) THEN Fail
    ELSE Collect([error |-> Req(DeGenerateContentResponseErrorDetails, j, "error")])

\* #[serde(untagged)]: the variants are tried in declaration order, Chunk
\* first, then Error; the first that decodes wins.
Untagged(chunk, err) ==
    IF chunk.ok THEN Ok([variant |-> "Chunk", chunk |-> chunk.v])
    ELSE IF err.ok THEN Ok([variant |-> "Error", err |-> err.v])
    ELSE Fail

DeGenerateContentResponse(j) ==
    Untagged(DeGenerateContentResponseChunk(j), DeGenerateContentResponseError(j))

(***************************************************************************)
(* Serialize: lib.rs.  No field carries skip_serializing_if, so every      *)
(* declared field is written, an Option that is None as null.              *)
(***************************************************************************)
MapSeq(F(_), s) == [k \in 1..Len(s) |-> F(s[k])]

SerOption(Ser(_), o) == IF o.some THEN Ser(o.v) ELSE JNull

SerStringMap(m) == JObj([k \in DOMAIN m |-> JStr(m[k])])

SerPart(p) ==
    CASE p.variant = "Text" -> JObj([text |-> JStr(p.text)])
      [] p.variant = "InlineData" ->
            JObj([inlineData |-> JObj([mime_type |-> JStr(p.mime_type),
                                       data |-> JStr(p.data)])])
      [] p.variant = "FileData" ->
            JObj([fileData |-> JObj([mime_type |-> JStr(p.mime_type),
                                     file_uri |-> JStr(p.file_uri)])])
      [] p.variant = "FunctionCall" ->
            JObj([functionCall |-> JObj([name |-> JStr(p.name),
                                         args |-> SerStringMap(p.args)])])

SerContent(c) == JObj([role |-> JStr(c.role), parts |-> JArr(MapSeq(SerPart, c.parts))])

SerSafetyRating(r) ==
    JObj([category |-> JStr(r.category), probability |-> JStr(r.probability)])

SerSafetyRatings(rs) == JArr(MapSeq(SerSafetyRating, rs))

SerCitation(c) ==
    JObj([endIndex |-> JNum(c.end_index), license |-> JStr(c.license),
          startIndex |-> JNum(c.start_index), uri |-> JStr(c.uri)])

SerCitationMetadata(m) ==
    JObj([citationSources |-> JArr(MapSeq(SerCitation, m.citation_sources))])

SerUsageMetadata(u) ==
    JObj([candidatesTokenCount |-> SerOption(JNum, u.candidates_token_count),
          promptTokenCount |-> JNum(u.prompt_token_count),
          totalTokenCount |-> JNum(u.total_token_count)])

SerCandidate(c) ==
    JObj([content |-> SerOption(SerContent, c.content),
          citationMetadata |-> SerOption(SerCitationMetadata, c.citation_metadata),
          safetyRatings |-> SerOption(SerSafetyRatings, c.safety_ratings),
          finishReason |-> SerOption(JStr, c.finish_reason)])

\* SerGenerateContentResponseChunk with skip_serializing_if = "Option::is_none"
\* on usage_metadata
SerGenerateContentResponseChunk_SkipNone(c) ==
    IF c.usage_metadata.some
    THEN JObj([candidates |-> JArr(MapSeq(SerCandidate, c.candidates)),
               usageMetadata |-> SerUsageMetadata(c.usage_metadata.v)])
    ELSE JObj([candidates |-> JArr(MapSeq(SerCandidate, c.candidates))])

SerGenerateContentResponseChunk(c) ==
    JObj([candidates |-> JArr(MapSeq(SerCandidate, c.candidates)),
          usageMetadata |-> SerOption(SerUsageMetadata, c.usage_metadata)])

(***************************************************************************)
(* main.rs: parse_chunk and the text of one chunk                          *)
(***************************************************************************)
\* match item { Chunk(chunk) => Ok(chunk), Error(err) => Err(err) }, after
\* the unwrap() that panics when no variant matched
Unwrap(r) ==
    IF ~r.ok THEN [kind |-> "Panic"]
    ELSE IF r.v.variant = "Chunk" THEN [kind |-> "Ok", chunk |-> r.v.chunk]
    ELSE [kind |-> "Err", err |-> r.v.err]

\* parse_chunk taking an item that is not an object for a chunk without
\* candidates, in place of the panic
parse_chunk_SkipNonObject(item) ==
    IF ~IsObject(item)
    THEN [kind |-> "Ok", chunk |-> [candidates |-> <<>>, usage_metadata |-> None]]
    ELSE Unwrap(DeGenerateContentResponse(item))

\* parse_chunk: panics on a non-object and on an object that matches no
\* variant; otherwise Ok(chunk) or Err(err).
parse_chunk(item) ==
    IF ~IsObject(item) THEN [kind |-> "Panic"]
    ELSE Unwrap(DeGenerateContentResponse(item))

RECURSIVE ConcatStrings(_)
ConcatStrings(ss) ==
    IF ss = <<>> THEN "" ELSE Head(ss) \o ConcatStrings(Tail(ss))

RECURSIVE FlattenSeqs(_)
FlattenSeqs(ss) ==
    IF ss = <<>> THEN <<>> ELSE Head(ss) \o FlattenSeqs(Tail(ss))

\* FilterMapContent leaving out the candidates that finished with SAFETY
FilterMapContent_SkipSafety(candidates) ==
    MapSeq(LAMBDA c : c.content.v,
           SelectSeq(candidates,
                     LAMBDA c : c.content.some /\ c.finish_reason # Some("SAFETY")))

\* .filter_map(|candidate| match &candidate.content { Some(c) => Some(c), _ => None })
FilterMapContent(candidates) ==
    MapSeq(LAMBDA c : c.content.v, SelectSeq(candidates, LAMBDA c : c.content.some))

\* MapPartText with map_while in place of map: the parts up to the first
\* one that is not Text
RECURSIVE TakeTexts(_)
TakeTexts(parts) ==
    IF parts = <<>> THEN <<>>
    ELSE IF Head(parts).variant # "Text" THEN <<>>
    ELSE <<Some(Head(parts).text)>> \o TakeTexts(Tail(parts))

MapPartText_MapWhile(content) == TakeTexts(content.parts)

\* content.parts.iter().map(|part| match part { Part::Text(t) => Some(t), _ => None })
MapPartText(content) ==
    MapSeq(LAMBDA p : IF p.variant = "Text" THEN Some(p.text) ELSE None, content.parts)

\* ChunkText reading the first candidate only
ChunkText_FirstCandidate(chunk) ==
    LET contents == FilterMapContent(SubSeq(chunk.candidates, 1, 1))
        options == FlattenSeqs(MapSeq(MapPartText, contents))
        texts == MapSeq(LAMBDA o : o.v, SelectSeq(options, LAMBDA o : o.some))
    IN  ConcatStrings(texts)

\* .flat_map(..).flatten().collect::<String>()
ChunkText(chunk) ==
    LET contents == FilterMapContent(chunk.candidates)
        options == FlattenSeqs(MapSeq(MapPartText, contents))
        texts == MapSeq(LAMBDA o : o.v, SelectSeq(options, LAMBDA o : o.some))
    IN  ConcatStrings(texts)

(***************************************************************************)
(* Response elements, after the fixtures EXAMPLE_RESPONSE and              *)
(* EXAMPLE_ERROR, with the generated text shortened to one letter.         *)
(***************************************************************************)
MaxLen == 3

Rating(category, probability) ==
    JObj([category |-> JStr(category), probability |-> JStr(probability)])

NegligibleRatings ==
    JArr(<<Rating("HARM_CATEGORY_SEXUALLY_EXPLICIT", "NEGLIGIBLE"),
           Rating("HARM_CATEGORY_HATE_SPEECH", "NEGLIGIBLE")>>)

TextPart(s) == JObj([text |-> JStr(s)])

StopCandidate(parts) ==
    JObj([content |-> JObj([parts |-> JArr(parts), role |-> JStr("model")]),
          finishReason |-> JStr("STOP"),
          index |-> JNum(0),
          safetyRatings |-> NegligibleRatings])

SafetyCandidate ==
    JObj([finishReason |-> JStr("SAFETY"),
          index |-> JNum(0),
          safetyRatings |->
              JArr(<<Rating("HARM_CATEGORY_SEXUALLY_EXPLICIT", "HIGH"),
                     Rating("HARM_CATEGORY_HATE_SPEECH", "NEGLIGIBLE")>>)])

ChunkFirst ==
    JObj([candidates |-> JArr(<<StopCandidate(<<TextPart("a")>>)>>),
          promptFeedback |-> JObj([safetyRatings |-> NegligibleRatings])])

ChunkNext == JObj([candidates |-> JArr(<<StopCandidate(<<TextPart("b")>>)>>)])

ChunkSafety == JObj([candidates |-> JArr(<<SafetyCandidate>>)])

ChunkMulti ==
    JObj([candidates |-> JArr(<<StopCandidate(<<TextPart("c"), TextPart("d")>>),
                                SafetyCandidate,
                                StopCandidate(<<TextPart("e")>>)>>),
          usageMetadata |-> JObj([promptTokenCount |-> JNum(4),
                                  totalTokenCount |-> JNum(9)])])

ChunkEmpty == JObj([candidates |-> JArr(<<>>), usageMetadata |-> JNull])

ErrorDetails(code, message, status) ==
    JObj([code |-> JNum(code), message |-> JStr(message), status |-> JStr(status)])

ErrorOverloaded ==
    JObj([error |-> ErrorDetails(503, "The model is overloaded. Please try again later.",
                                 "UNAVAILABLE")])

ErrorExhausted ==
    JObj([error |-> ErrorDetails(429, "Resource has been exhausted.", "RESOURCE_EXHAUSTED")])

ErrorWithCandidates ==
    JObj([error |-> ErrorDetails(500, "Internal error.", "INTERNAL"),
          candidates |-> JArr(<<StopCandidate(<<TextPart("x")>>)>>)])

EmptyObject == JObj(<<>>)

NotAnObject == JNum(1)

Elements ==
    {ChunkFirst, ChunkNext, ChunkSafety, ChunkMulti, ChunkEmpty,
     ErrorOverloaded, ErrorExhausted, ErrorWithCandidates,
     EmptyObject, NotAnObject}

\* Parts other than text, with the field names the enum Part declares
InlineDataPart ==
    JObj([inlineData |-> JObj([mime_type |-> JStr("image/png"), data |-> JStr("AAAA")])])

FileDataPart ==
    JObj([fileData |-> JObj([mime_type |-> JStr("image/png"), file_uri |-> JStr("gs://b/f")])])

FunctionCallPart ==
    JObj([functionCall |-> JObj([name |-> JStr("lookup"),
                                 args |-> JObj([city |-> JStr("Paris")])])])

ChunkMixed ==
    JObj([candidates |->
            JArr(<<StopCandidate(<<TextPart("f"), InlineDataPart,
                                   TextPart("g"), FunctionCallPart>>),
                   StopCandidate(<<FileDataPart, TextPart("h")>>)>>)])

\* A part with the keys of two variants, and a part with the key of none
ChunkTwoVariants ==
    JObj([candidates |->
            JArr(<<StopCandidate(<<TextPart("p"),
                                   JObj([text |-> JStr("q"),
                                         inlineData |-> InlineDataPart.o["inlineData"]])>>)>>)])

ChunkNoVariant ==
    JObj([candidates |-> JArr(<<StopCandidate(<<TextPart("n"), JObj(<<>>)>>)>>)])

\* An inlineData part as the service writes it, with camelCase field names
ChunkInlineCamel ==
    JObj([candidates |->
            JArr(<<StopCandidate(<<TextPart("w"),
                                   JObj([inlineData |->
                                           JObj([mimeType |-> JStr("image/png"),
                                                 data |-> JStr("AAAA")])])>>)>>)])

\* A candidate whose content has parts and no role
ChunkNoRole ==
    JObj([candidates |->
            JArr(<<JObj([content |-> JObj([parts |-> JArr(<<TextPart("r")>>)]),
                         finishReason |-> JStr("STOP")])>>)])

PartElements == {ChunkMixed, ChunkTwoVariants, ChunkNoVariant, ChunkInlineCamel, ChunkNoRole}

BasicElements == {ChunkFirst, ChunkNext, ErrorOverloaded}

\* Objects with an `error` that does not match the error details: `status`
\* missing, `code` a string, and the former next to valid `candidates`
ErrorNoStatus ==
    JObj([error |-> JObj([code |-> JNum(500), message |-> JStr("Internal error.")])])

ErrorCodeString ==
    JObj([error |-> JObj([code |-> JStr("500"), message |-> JStr("Internal error."),
                          status |-> JStr("INTERNAL")])])

ErrorNoStatusWithCandidates ==
    JObj([error |-> ErrorNoStatus.o["error"],
          candidates |-> JArr(<<StopCandidate(<<TextPart("y")>>)>>)])

\* Chunks with a usageMetadata that lacks one of the counts
UsageChunk(s, usage) ==
    JObj([candidates |-> JArr(<<StopCandidate(<<TextPart(s)>>)>>),
          usageMetadata |-> JObj(usage)])

ChunkUsageNoPrompt ==
    UsageChunk("u", [candidatesTokenCount |-> JNum(5), totalTokenCount |-> JNum(9)])

ChunkUsageNoTotal ==
    UsageChunk("v", [candidatesTokenCount |-> JNum(5), promptTokenCount |-> JNum(4)])

ChunkUsageNoCandidatesCount ==
    UsageChunk("z", [promptTokenCount |-> JNum(4), totalTokenCount |-> JNum(9)])

SchemaElements ==
    {ErrorNoStatus, ErrorCodeString, ErrorNoStatusWithCandidates,
     ChunkUsageNoPrompt, ChunkUsageNoTotal, ChunkUsageNoCandidatesCount}

\* A candidate with content and the given finishReason, or none
ReasonCandidate(parts, reason) ==
    JObj([content |-> JObj([parts |-> JArr(parts), role |-> JStr("model")]),
          finishReason |-> reason])

ChunkReasonOther ==
    JObj([candidates |-> JArr(<<ReasonCandidate(<<TextPart("k")>>, JStr("OTHER"))>>)])

ChunkReasonSafety ==
    JObj([candidates |-> JArr(<<ReasonCandidate(<<TextPart("l")>>, JStr("SAFETY"))>>)])

ChunkReasonNull ==
    JObj([candidates |-> JArr(<<ReasonCandidate(<<TextPart("m")>>, JNull)>>)])

ChunkNoReason ==
    JObj([candidates |->
            JArr(<<JObj([content |-> JObj([parts |-> JArr(<<TextPart("o")>>),
                                           role |-> JStr("model")])])>>)])

\* A content without parts, and a content whose only part is the empty text
ChunkEmptyParts == JObj([candidates |-> JArr(<<StopCandidate(<<>>)>>)])

ChunkEmptyText == JObj([candidates |-> JArr(<<StopCandidate(<<TextPart("")>>)>>)])

VariantElements ==
    {ChunkReasonOther, ChunkReasonSafety, ChunkReasonNull, ChunkNoReason,
     ChunkEmptyParts, ChunkEmptyText}

\* The arrays of the model: every array of at most MaxLen of the elements
\* above, and every one of the part elements, of the schema elements and of
\* the variant elements among basic elements.
Arrays ==
    UNION {[1..n -> Elements] : n \in 0..MaxLen}
        \cup UNION {[1..n -> BasicElements \cup PartElements] : n \in 0..MaxLen}
        \cup UNION {[1..n -> BasicElements \cup SchemaElements] : n \in 0..MaxLen}
        \cup UNION {[1..n -> BasicElements \cup VariantElements] : n \in 0..MaxLen}

Programs == {"main", "parse_chunks", "round_trip"}

(***************************************************************************)
(* The response on the wire.  An element arrives as a frame: the number of *)
(* its bytes, and whether the bytes are sound, are not JSON, or are cut    *)
(* short by the transport closing.                                         *)
(***************************************************************************)
\* res.json_array_stream::<serde_json::Value>(1024 * 1024): the limit main sets,
\* with 1024 + 1024 in place of 1024 * 1024
MaxObjLen_Sum == 1024 + 1024

MaxObjLen == 1024 * 1024

Frame(size, fault) == [size |-> size, fault |-> fault]

PlainFrame == Frame(2, "none")

Frames ==
    {PlainFrame, Frame(1024 * 1024, "none"), Frame(1024 * 1024 + 1, "none"),
     Frame(2, "malformed"), Frame(2, "closed")}

\* The arrays that are also sent with frames other than the plain one
FaultArrays == UNION {[1..n -> BasicElements] : n \in 0..MaxLen}

Wires(p, arr) ==
    IF p = "main" /\ arr \in FaultArrays
    THEN [1..Len(arr) -> Frames]
    ELSE {[k \in 1..Len(arr) |-> PlainFrame]}

\* The item the stream yields for an element: the value, or an error when the
\* bytes are not a JSON value, end early, or are more than the limit
json_array_stream(max_obj_len, frame, value) ==
    IF frame.fault # "none" THEN Fail
    ELSE IF frame.size > max_obj_len THEN Fail
    ELSE Ok(value)

\* The stream yields no error
Delivers(w) == \A k \in 1..Len(w) : json_array_stream(MaxObjLen, w[k], JNull).ok

(***************************************************************************)
(* State                                                                   *)
(***************************************************************************)
VARIABLES
    prog,      \* the program that runs: main, the test helper, the round trip
    body,      \* the elements of the JSON array of the response
    wire,      \* per element, how its bytes arrive: their number, and a fault
    streamOk,  \* whether json_array_stream / try_collect deliver the array
    pc,        \* "start", "loop", "done", "panicked"
    chunks,    \* main: the collected Vec<serde_json::Value>
    items,     \* parse_chunks: the items of the array
    pushed,    \* parse_chunks: its local Vec<GenerateContentResponseChunk>
    i,         \* position of the iterator, 1-based
    parsed,    \* the results of the calls of parse_chunk, in call order
    stdout,    \* what print! / println! wrote, one token per call
    reser,     \* round trip: per element, the re-serialized chunk if it decoded
    result     \* what the program returned

vars == <<prog, body, wire, streamOk, pc, chunks, items, pushed, i, parsed, stdout, reser, result>>

Last(s) == s[Len(s)]

\* serde_json::to_value of a chunk that decoded
ToValue(d) == IF d.ok THEN Some(SerGenerateContentResponseChunk(d.v)) ELSE None

TextToken(s) == [k |-> "text", s |-> s]
NewLine == [k |-> "nl"]
ErrorToken(e) == [k |-> "error", e |-> e]

Init ==
    /\ prog \in Programs
    /\ body \in Arrays
    /\ wire \in Wires(prog, body)
    /\ streamOk = Delivers(wire)
    /\ pc = "start"
    /\ chunks = <<>>
    /\ items = <<>>
    /\ pushed = <<>>
    /\ i = 1
    /\ parsed = <<>>
    /\ stdout = <<>>
    /\ reser = <<>>
    /\ result = [kind |-> "none"]

(***************************************************************************)
(* main                                                                    *)
(***************************************************************************)
\* CollectNext with the text of the value printed as soon as it is taken, as
\* a loop over stream.try_next() would
CollectNext_PrintAsTaken ==
    /\ prog = "main" /\ pc = "start" /\ Len(chunks) < Len(body)
    /\ json_array_stream(MaxObjLen, wire[Len(chunks) + 1], body[Len(chunks) + 1]).ok
    /\ chunks' = Append(chunks, body[Len(chunks) + 1])
    /\ stdout' = IF parse_chunk(Last(chunks')).kind = "Ok"
                 THEN Append(stdout, TextToken(ChunkText(parse_chunk(Last(chunks')).chunk)))
                 ELSE stdout
    /\ UNCHANGED <<prog, body, wire, streamOk, pc, items, pushed, i, parsed, reser, result>>

\* try_collect polls the stream and pushes the value it yields
CollectNext ==
    /\ prog = "main" /\ pc = "start" /\ Len(chunks) < Len(body)
    /\ json_array_stream(MaxObjLen, wire[Len(chunks) + 1], body[Len(chunks) + 1]).ok
    /\ chunks' = Append(chunks, body[Len(chunks) + 1])
    /\ UNCHANGED <<prog, body, wire, streamOk, pc, items, pushed, i, parsed, stdout, reser, result>>

\* the stream ends: try_collect returns the Vec and the loop starts
CollectOk ==
    /\ prog = "main" /\ pc = "start" /\ Len(chunks) = Len(body)
    /\ pc' = "loop"
    /\ UNCHANGED <<prog, body, wire, streamOk, chunks, items, pushed, i, parsed, stdout, reser, result>>

\* CollectErr with the error dropped and the values collected so far kept
CollectErr_KeepCollected ==
    /\ prog = "main" /\ pc = "start" /\ Len(chunks) < Len(body)
    /\ ~json_array_stream(MaxObjLen, wire[Len(chunks) + 1], body[Len(chunks) + 1]).ok
    /\ pc' = "loop"
    /\ UNCHANGED <<prog, body, wire, streamOk, chunks, items, pushed, i, parsed, stdout, reser, result>>

\* the stream yields an error: try_collect drops the Vec and returns the
\* error, and `?` returns it from main
CollectErr ==
    /\ prog = "main" /\ pc = "start" /\ Len(chunks) < Len(body)
    /\ ~json_array_stream(MaxObjLen, wire[Len(chunks) + 1], body[Len(chunks) + 1]).ok
    /\ chunks' = <<>>
    /\ result' = [kind |-> "Err", err |-> "stream"]
    /\ pc' = "done"
    /\ UNCHANGED <<prog, body, wire, streamOk, items, pushed, i, parsed, stdout, reser>>

\* one iteration of the loop, Ok(chunk) arm
MainChunkOk ==
    /\ prog = "main" /\ pc = "loop" /\ i <= Len(chunks)
    /\ parsed' = Append(parsed, parse_chunk(chunks[i]))
    /\ Last(parsed').kind = "Ok"
    /\ stdout' = Append(stdout, TextToken(ChunkText(Last(parsed').chunk)))
    /\ i' = i + 1
    /\ UNCHANGED <<prog, body, wire, streamOk, pc, chunks, items, pushed, reser, result>>

\* one iteration of the loop, Err(err) arm: the loop goes on
MainChunkErr ==
    /\ prog = "main" /\ pc = "loop" /\ i <= Len(chunks)
    /\ parsed' = Append(parsed, parse_chunk(chunks[i]))
    /\ Last(parsed').kind = "Err"
    /\ stdout' = stdout \o <<NewLine, ErrorToken(Last(parsed').err.error)>>
    /\ i' = i + 1
    /\ UNCHANGED <<prog, body, wire, streamOk, pc, chunks, items, pushed, reser, result>>

\* one iteration of the loop, parse_chunk panics
MainChunkPanic ==
    /\ prog = "main" /\ pc = "loop" /\ i <= Len(chunks)
    /\ parsed' = Append(parsed, parse_chunk(chunks[i]))
    /\ Last(parsed').kind = "Panic"
    /\ pc' = "panicked"
    /\ result' = [kind |-> "Panic"]
    /\ UNCHANGED <<prog, body, wire, streamOk, chunks, items, pushed, i, stdout, reser>>

\* MainReturn reporting a response without elements as a failure
MainReturn_EmptyIsError ==
    /\ prog = "main" /\ pc = "loop" /\ i > Len(chunks)
    /\ stdout' = Append(stdout, NewLine)
    /\ result' = IF chunks = <<>> THEN [kind |-> "Err", err |-> "empty"] ELSE [kind |-> "Ok"]
    /\ pc' = "done"
    /\ UNCHANGED <<prog, body, wire, streamOk, chunks, items, pushed, i, parsed, reser>>

\* after the loop: println!(); Ok(())
MainReturn ==
    /\ prog = "main" /\ pc = "loop" /\ i > Len(chunks)
    /\ stdout' = Append(stdout, NewLine)
    /\ result' = [kind |-> "Ok"]
    /\ pc' = "done"
    /\ UNCHANGED <<prog, body, wire, streamOk, chunks, items, pushed, i, parsed, reser>>

(***************************************************************************)
(* tests::parse_chunks                                                     *)
(***************************************************************************)
\* let Value::Array(items) = data
ParseChunksEnter ==
    /\ prog = "parse_chunks" /\ pc = "start"
    /\ items' = body
    /\ pc' = "loop"
    /\ UNCHANGED <<prog, body, wire, streamOk, chunks, pushed, i, parsed, stdout, reser, result>>

\* ParseChunksOk with chunks.insert(0, chunk) in place of chunks.push(chunk)
ParseChunksOk_InsertFront ==
    /\ prog = "parse_chunks" /\ pc = "loop" /\ i <= Len(items)
    /\ parsed' = Append(parsed, parse_chunk(items[i]))
    /\ Last(parsed').kind = "Ok"
    /\ pushed' = <<Last(parsed').chunk>> \o pushed
    /\ i' = i + 1
    /\ UNCHANGED <<prog, body, wire, streamOk, pc, chunks, items, stdout, reser, result>>

\* Ok(chunk) => chunks.push(chunk)
ParseChunksOk ==
    /\ prog = "parse_chunks" /\ pc = "loop" /\ i <= Len(items)
    /\ parsed' = Append(parsed, parse_chunk(items[i]))
    /\ Last(parsed').kind = "Ok"
    /\ pushed' = Append(pushed, Last(parsed').chunk)
    /\ i' = i + 1
    /\ UNCHANGED <<prog, body, wire, streamOk, pc, chunks, items, stdout, reser, result>>

\* ParseChunksErr without the return: the error is noted and the loop goes on,
\* as the loop of main does
ParseChunksErr_Continue ==
    /\ prog = "parse_chunks" /\ pc = "loop" /\ i <= Len(items)
    /\ parsed' = Append(parsed, parse_chunk(items[i]))
    /\ Last(parsed').kind = "Err"
    /\ result' = [kind |-> "Err", err |-> Last(parsed').err]
    /\ i' = i + 1
    /\ pc' = IF i = Len(items) THEN "done" ELSE "loop"
    /\ UNCHANGED <<prog, body, wire, streamOk, chunks, items, pushed, stdout, reser>>

\* Err(err) => return Err(err)
ParseChunksErr ==
    /\ prog = "parse_chunks" /\ pc = "loop" /\ i <= Len(items)
    /\ parsed' = Append(parsed, parse_chunk(items[i]))
    /\ Last(parsed').kind = "Err"
    /\ result' = [kind |-> "Err", err |-> Last(parsed').err]
    /\ pc' = "done"
    /\ UNCHANGED <<prog, body, wire, streamOk, chunks, items, pushed, i, stdout, reser>>

ParseChunksPanic ==
    /\ prog = "parse_chunks" /\ pc = "loop" /\ i <= Len(items)
    /\ parsed' = Append(parsed, parse_chunk(items[i]))
    /\ Last(parsed').kind = "Panic"
    /\ pc' = "panicked"
    /\ result' = [kind |-> "Panic"]
    /\ UNCHANGED <<prog, body, wire, streamOk, chunks, items, pushed, i, stdout, reser>>

\* Ok(chunks)
ParseChunksReturn ==
    /\ prog = "parse_chunks" /\ pc = "loop" /\ i > Len(items)
    /\ result' = [kind |-> "Ok", chunks |-> pushed]
    /\ pc' = "done"
    /\ UNCHANGED <<prog, body, wire, streamOk, chunks, items, pushed, i, parsed, stdout, reser>>

(***************************************************************************)
(* Round trip of GenerateContentResponseChunk: from_value, then to_value   *)
(***************************************************************************)
RoundTrip ==
    /\ prog = "round_trip" /\ pc = "start" /\ i <= Len(body)
    /\ reser' = Append(reser, ToValue(DeGenerateContentResponseChunk(body[i])))
    /\ i' = i + 1
    /\ UNCHANGED <<prog, body, wire, streamOk, pc, chunks, items, pushed, parsed, stdout, result>>

RoundTripDone ==
    /\ prog = "round_trip" /\ pc = "start" /\ i > Len(body)
    /\ pc' = "done"
    /\ UNCHANGED <<prog, body, wire, streamOk, chunks, items, pushed, i, parsed, stdout, reser, result>>

Next ==
    \/ CollectNext
    \/ CollectOk
    \/ CollectErr
    \/ MainChunkOk
    \/ MainChunkErr
    \/ MainChunkPanic
    \/ MainReturn
    \/ ParseChunksEnter
    \/ ParseChunksOk
    \/ ParseChunksErr
    \/ ParseChunksPanic
    \/ ParseChunksReturn
    \/ RoundTrip
    \/ RoundTripDone

Spec == Init /\ [][Next]_vars

(***************************************************************************)
(* What the response says, read off the JSON itself                        *)
(***************************************************************************)
\* The text of a part, a candidate and an element: every `text` of every
\* candidate that has a content, candidate by candidate, part by part.
RawPartText(p) == IF Has(p, "text") THEN p.o["text"].s ELSE ""

RawCandidateText(c) ==
    IF Has(c, "content") /\ IsObject(c.o["content"])
    THEN ConcatStrings(MapSeq(RawPartText, c.o["content"].o["parts"].a))
    ELSE ""

RawChunkText(j) == ConcatStrings(MapSeq(RawCandidateText, j.o["candidates"].a))

\* The text of the first n elements of an array of chunks.
RawTextUpTo(arr, n) == ConcatStrings(MapSeq(RawChunkText, SubSeq(arr, 1, n)))

RawErrorDetails(j) ==
    [code |-> j.o["error"].o["code"].n,
     message |-> j.o["error"].o["message"].s,
     status |-> j.o["error"].o["status"].s]

\* Parts and candidates of an element, read off the JSON
PartKeys == {"text", "inlineData", "fileData", "functionCall"}

RawCandidates(j) == j.o["candidates"].a

HasParts(c) ==
    /\ Has(c, "content") /\ IsObject(c.o["content"])
    /\ Has(c.o["content"], "parts") /\ c.o["content"].o["parts"].t = "arr"

RawParts(c) == c.o["content"].o["parts"].a

SomeCandidate(P(_), j) ==
    /\ Has(j, "candidates") /\ j.o["candidates"].t = "arr"
    /\ \E c \in 1..Len(RawCandidates(j)) : P(RawCandidates(j)[c])

EveryCandidate(P(_), j) ==
    /\ Has(j, "candidates") /\ j.o["candidates"].t = "arr"
    /\ \A c \in 1..Len(RawCandidates(j)) : P(RawCandidates(j)[c])

\* The parts that decode: `text` alone, or one of the other variants with the
\* fields the enum Part declares
TextOnlyPart(p) == IsObject(p) /\ Keys(p) = {"text"}

DeclaredNonTextPart(p) ==
    /\ IsObject(p)
    /\ \/ Keys(p) = {"inlineData"} /\ Keys(p.o["inlineData"]) = {"mime_type", "data"}
       \/ Keys(p) = {"fileData"} /\ Keys(p.o["fileData"]) = {"mime_type", "file_uri"}
       \/ Keys(p) = {"functionCall"} /\ Keys(p.o["functionCall"]) = {"name", "args"}

\* A candidate that matches the schema: its content, when there, has a `role`
\* and parts that decode
WellFormedCandidate(c) ==
    /\ IsObject(c)
    /\ Has(c, "content") =>
          /\ HasParts(c) /\ Has(c.o["content"], "role")
          /\ \A p \in 1..Len(RawParts(c)) :
                TextOnlyPart(RawParts(c)[p]) \/ DeclaredNonTextPart(RawParts(c)[p])

\* A usageMetadata that matches the schema: none, null, or an object with
\* promptTokenCount and totalTokenCount
WellFormedUsage(j) ==
    Has(j, "usageMetadata") =>
        \/ j.o["usageMetadata"] = JNull
        \/ /\ Has(j.o["usageMetadata"], "promptTokenCount")
           /\ j.o["usageMetadata"].o["promptTokenCount"].t = "num"
           /\ Has(j.o["usageMetadata"], "totalTokenCount")
           /\ j.o["usageMetadata"].o["totalTokenCount"].t = "num"

\* Shapes of an element: a chunk carries `candidates` and a `usageMetadata`
\* that match the schema and no `error`, an error carries an `error` with
\* code, message and status and no `candidates`.
ChunkShaped(j) ==
    /\ Has(j, "candidates") /\ ~Has(j, "error")
    /\ EveryCandidate(WellFormedCandidate, j)
    /\ WellFormedUsage(j)

\* An `error` value with code, message and status of the declared types
CompleteErrorDetails(e) ==
    /\ IsObject(e)
    /\ Has(e, "code") /\ e.o["code"].t = "num"
    /\ Has(e, "message") /\ e.o["message"].t = "str"
    /\ Has(e, "status") /\ e.o["status"].t = "str"

ErrorShaped(j) ==
    /\ Has(j, "error") /\ ~Has(j, "candidates")
    /\ CompleteErrorDetails(j.o["error"])

\* A chunk all of whose candidates were suppressed: no `content`,
\* finishReason SAFETY.
SuppressedCandidate(c) ==
    /\ IsObject(c) /\ ~Has(c, "content")
    /\ Has(c, "finishReason") /\ c.o["finishReason"] = JStr("SAFETY")

SuppressedChunk(j) ==
    /\ ChunkShaped(j)
    /\ j.o["candidates"].t = "arr" /\ Len(j.o["candidates"].a) >= 1
    /\ \A c \in 1..Len(j.o["candidates"].a) : SuppressedCandidate(j.o["candidates"].a[c])

\* What the run did
DecodesAsChunk(j) == parse_chunk(j).kind = "Ok"
DecodesAsError(j) == parse_chunk(j).kind = "Err"
AllChunks(arr) == \A k \in 1..Len(arr) : DecodesAsChunk(arr[k])

TokenText(tok) == IF tok.k = "text" THEN tok.s ELSE ""
EmittedText == ConcatStrings(MapSeq(TokenText, stdout))
ErrorTokens == {k \in 1..Len(stdout) : stdout[k].k = "error"}
ErrorSeen == \E k \in 1..Len(parsed) : parsed[k].kind = "Err"
Ended == pc \in {"done", "panicked"}

\* The index of the first Error element, all elements before it being
\* Chunks; 0 if there is none.
FirstError(arr) ==
    IF \E k \in 1..Len(arr) : DecodesAsError(arr[k]) /\ AllChunks(SubSeq(arr, 1, k - 1))
    THEN CHOOSE k \in 1..Len(arr) : DecodesAsError(arr[k]) /\ AllChunks(SubSeq(arr, 1, k - 1))
    ELSE 0

(***************************************************************************)
(* Claims                                                                  *)
(***************************************************************************)
\* C1: when every element of the collected array decodes as a Chunk, the
\* text written by the loop of main is, at every iteration, the text of the
\* elements read so far (element by element, candidate by candidate, part by
\* part), the run does not panic, and it ends with Ok(()) and the text of
\* the whole array.
C1_AllChunksTextInOrder ==
    (prog = "main" /\ streamOk /\ AllChunks(body)) =>
        /\ pc # "panicked"
        /\ pc = "loop" => EmittedText = RawTextUpTo(chunks, i - 1)
        /\ pc = "done" => /\ result = [kind |-> "Ok"]
                          /\ EmittedText = RawTextUpTo(body, Len(body))
                          /\ ErrorTokens = {}

C1_Witness ==
    /\ prog = "main" /\ pc = "done" /\ AllChunks(body)
    /\ Len(body) >= 3
    /\ body[1] = ChunkFirst /\ body[2] = ChunkMulti /\ body[3] = ChunkNext
    /\ EmittedText = "acdeb"

\* C2: when element k is the first Error and the elements before it are
\* Chunks, the text written over the whole run is the text of the elements
\* before k and nothing of a later element.
C2_TextEndsAtFirstError ==
    (prog = "main" /\ Ended /\ streamOk /\ FirstError(body) # 0) =>
        EmittedText = RawTextUpTo(body, FirstError(body) - 1)

\* C3: once the loop of main has seen an Error element, no further element
\* is classified or consumed.
C3_ErroredIsTerminal ==
    [][(prog = "main" /\ ErrorSeen) => UNCHANGED <<i, parsed>>]_vars

\* C4: after an Error element was seen, main does not finish with Ok(()): its
\* result is a failure that carries the code, message and status of the Error.
C4_ErrorIsFailure ==
    (prog = "main" /\ pc = "done" /\ FirstError(body) # 0 /\ ErrorSeen) =>
        /\ result.kind = "Err"
        /\ result.err = RawErrorDetails(body[FirstError(body)])

\* C5: parse_chunk returns Err for an object if and only if the object has
\* a top-level `error` key, and Ok otherwise (of the objects it classifies
\* at all); an object with both `error` and valid `candidates` is an Error.
C5_ErrorIffErrorKey ==
    \A k \in 1..Len(parsed) :
        (IsObject(body[k]) /\ parsed[k].kind # "Panic") =>
            (parsed[k].kind = "Err" <=> Has(body[k], "error"))

\* C6: a chunk whose candidates have no content decodes, adds no character,
\* and does not turn the run into an error: after an array of Chunks that
\* ends with such a chunk, the text is that of the earlier chunks and main
\* returns Ok(()).
C6_SuppressedCandidateAddsNothing ==
    prog = "main" =>
        /\ \A k \in 1..Len(parsed) :
              SuppressedChunk(chunks[k]) =>
                  parsed[k].kind = "Ok" /\ ChunkText(parsed[k].chunk) = ""
        /\ (/\ streamOk /\ Len(body) >= 1
            /\ SuppressedChunk(body[Len(body)])
            /\ AllChunks(SubSeq(body, 1, Len(body) - 1))) =>
                /\ pc # "panicked"
                /\ pc = "done" => /\ result = [kind |-> "Ok"]
                                  /\ EmittedText = RawTextUpTo(body, Len(body) - 1)
                                  /\ ErrorTokens = {}

C6_Witness ==
    /\ prog = "main" /\ pc = "done"
    /\ Len(body) >= 2
    /\ body[1] = ChunkFirst /\ body[Len(body)] = ChunkSafety
    /\ AllChunks(body)
    /\ EmittedText = RawTextUpTo(body, Len(body) - 1)
    /\ Len(EmittedText) >= 1

\* C7: an array without elements gives no text and no error notice, and main
\* returns Ok(()); all it writes is the final line break.
C7_EmptyArrayCompletes ==
    (prog = "main" /\ streamOk /\ body = <<>>) =>
        /\ pc # "panicked"
        /\ pc = "done" => /\ result = [kind |-> "Ok"]
                          /\ EmittedText = ""
                          /\ stdout = <<NewLine>>

C7_Witness ==
    prog = "main" /\ streamOk /\ body = <<>> /\ pc = "done" /\ stdout = <<NewLine>>

\* C8 as stated: decoding a chunk and serializing it again keeps every key
\* of the original, at the top level and in each candidate.
C8_RoundTripKeepsEveryKey ==
    \A k \in 1..Len(reser) :
        reser[k].some =>
            /\ Keys(body[k]) \subseteq Keys(reser[k].v)
            /\ \A c \in 1..Len(RawCandidates(body[k])) :
                  Keys(RawCandidates(body[k])[c]) \subseteq Keys(RawCandidates(reser[k].v)[c])

\* C8, amended: decoding a chunk and serializing it again keeps every key
\* of the original that the data model declares, at the top level and in
\* each candidate, and keeps the number of candidates; the keys it does not
\* declare (index, promptFeedback) are not in the result.
ChunkKeys == {"candidates", "usageMetadata"}
CandidateKeys == {"content", "citationMetadata", "safetyRatings", "finishReason"}

C8_RoundTripKeepsDeclaredKeys ==
    \A k \in 1..Len(reser) :
        reser[k].some =>
            /\ Keys(body[k]) \cap ChunkKeys \subseteq Keys(reser[k].v)
            /\ Keys(reser[k].v) \subseteq ChunkKeys
            /\ Len(RawCandidates(reser[k].v)) = Len(RawCandidates(body[k]))
            /\ \A c \in 1..Len(RawCandidates(body[k])) :
                  /\ Keys(RawCandidates(body[k])[c]) \cap CandidateKeys
                        \subseteq Keys(RawCandidates(reser[k].v)[c])
                  /\ Keys(RawCandidates(reser[k].v)[c]) \subseteq CandidateKeys

C8_Witness ==
    /\ prog = "round_trip" /\ pc = "done"
    /\ Len(reser) >= 2
    /\ body[1] = ChunkFirst /\ body[2] = ChunkEmpty
    /\ reser[1].some /\ reser[2].some
    /\ "promptFeedback" \notin Keys(reser[1].v)
    /\ "usageMetadata" \in Keys(reser[2].v)

\* C9: for an array of chunk-shaped objects parse_chunks does not panic and
\* returns Ok with one decoded chunk per element, in array order.
C9_ParseChunksKeepsEveryChunk ==
    (prog = "parse_chunks" /\ \A k \in 1..Len(body) : ChunkShaped(body[k])) =>
        /\ pc # "panicked"
        /\ pc = "done" =>
              /\ result.kind = "Ok"
              /\ Len(result.chunks) = Len(body)
              /\ \A k \in 1..Len(body) :
                    /\ result.chunks[k] = DeGenerateContentResponseChunk(body[k]).v
                    /\ ChunkText(result.chunks[k]) = RawChunkText(body[k])

C9_Witness ==
    /\ prog = "parse_chunks" /\ pc = "done" /\ result.kind = "Ok"
    /\ Len(body) >= 3
    /\ body[1] = ChunkFirst /\ body[2] = ChunkSafety /\ body[3] = ChunkMulti
    /\ Len(result.chunks) = Len(body)

\* C10: for an array of chunks and errors with at least one error,
\* parse_chunks returns Err with the details of the first error, returns no
\* chunks, and has called parse_chunk on no element after that error.
C10_ParseChunksStopsAtFirstError ==
    (/\ prog = "parse_chunks"
     /\ \A k \in 1..Len(body) : ChunkShaped(body[k]) \/ ErrorShaped(body[k])
     /\ \E k \in 1..Len(body) : ErrorShaped(body[k])) =>
        /\ pc # "panicked"
        /\ Len(parsed) <= FirstError(body)
        /\ pc = "done" =>
              /\ DOMAIN result = {"kind", "err"}
              /\ result.kind = "Err"
              /\ result.err.error = RawErrorDetails(body[FirstError(body)])
              /\ ErrorShaped(body[FirstError(body)])
              /\ \A k \in 1..(FirstError(body) - 1) : ChunkShaped(body[k])
              /\ Len(parsed) = FirstError(body)

C10_Witness ==
    /\ prog = "parse_chunks" /\ pc = "done" /\ result.kind = "Err"
    /\ Len(body) >= 3
    /\ body[1] = ChunkFirst /\ body[2] = ErrorExhausted /\ body[3] = ErrorOverloaded
    /\ result.err.error.code = 429
    /\ Len(parsed) = 2

\* The first element of the array for which P holds; 0 if there is none.
FirstSuch(P(_), arr) ==
    IF \E k \in 1..Len(arr) : P(arr[k])
    THEN CHOOSE k \in 1..Len(arr) : P(arr[k]) /\ \A m \in 1..(k - 1) : ~P(arr[m])
    ELSE 0

\* The tokens written for the first n calls of parse_chunk: one per chunk,
\* two (line break, notice) per error.
TokensFor(n) ==
    Cardinality({k \in 1..n : parsed[k].kind = "Ok"})
        + 2 * Cardinality({k \in 1..n : parsed[k].kind = "Err"})

NotObject(j) == ~IsObject(j)
FirstNonObject == FirstSuch(NotObject, body)

\* C11 as stated: an element that is not a JSON object ends the processing
\* with a failure result given to the caller, not with an abort of the
\* process.
C11_NonObjectIsFailureResult ==
    (prog = "main" /\ FirstNonObject # 0 /\ Len(parsed) >= FirstNonObject) =>
        pc # "panicked" /\ (pc = "done" => result.kind = "Err")

\* C11, amended: an element that is not a JSON object is neither skipped nor
\* taken for a chunk: parse_chunk panics on it, which ends the run at that
\* element; nothing is written for it, no later element is passed to
\* parse_chunk, and no result is returned to the caller.
C11_NonObjectPanics ==
    (prog \in {"main", "parse_chunks"}
     /\ FirstNonObject # 0 /\ Len(parsed) >= FirstNonObject) =>
        /\ pc = "panicked"
        /\ result = [kind |-> "Panic"]
        /\ Len(parsed) = FirstNonObject
        /\ parsed[FirstNonObject].kind = "Panic"
        /\ prog = "main" => Len(stdout) = TokensFor(FirstNonObject - 1)

C11_Witness ==
    /\ prog = "main" /\ pc = "panicked"
    /\ Len(body) >= 3
    /\ body[1] = ChunkFirst /\ body[2] = NotAnObject /\ body[3] = ChunkNext
    /\ EmittedText = "a"

\* C12: an object that has neither the shape of a Chunk nor that of an Error
\* (no `candidates`, no `error`) makes the classification fail with a typed
\* failure returned to the caller: parse_chunk returns neither a Chunk nor an
\* Error for it, and the run does not abort.
NeitherShape(j) == IsObject(j) /\ ~Has(j, "candidates") /\ ~Has(j, "error")

C12_SchemaViolationIsFailureResult ==
    (prog \in {"main", "parse_chunks"}
     /\ FirstSuch(NeitherShape, body) # 0
     /\ Len(parsed) >= FirstSuch(NeitherShape, body)) =>
        /\ parsed[FirstSuch(NeitherShape, body)].kind \notin {"Ok", "Err"}
        /\ pc # "panicked"

\* A part that carries the names of two variants, or of none
AmbiguousPart(p) == ~IsObject(p) \/ Cardinality(Keys(p) \cap PartKeys) # 1

HasAmbiguousPart(c) ==
    HasParts(c) /\ \E p \in 1..Len(RawParts(c)) : AmbiguousPart(RawParts(c)[p])

\* A decoded part holds one variant and the fields of that variant only
OneVariant(p) ==
    \/ p.variant = "Text" /\ DOMAIN p = {"variant", "text"}
    \/ p.variant = "InlineData" /\ DOMAIN p = {"variant", "mime_type", "data"}
    \/ p.variant = "FileData" /\ DOMAIN p = {"variant", "mime_type", "file_uri"}
    \/ p.variant = "FunctionCall" /\ DOMAIN p = {"variant", "name", "args"}

OneVariantEach(candidate) ==
    candidate.content.some =>
        \A p \in 1..Len(candidate.content.v.parts) : OneVariant(candidate.content.v.parts[p])

\* C18: every decoded part is one of Text, InlineData, FileData and
\* FunctionCall with the fields of that variant only; an element with a part
\* that carries the names of two variants or of none is not returned as a
\* Chunk by parse_chunk and does not decode as a GenerateContentResponseChunk.
C18_PartIsExactlyOneVariant ==
    /\ \A k \in 1..Len(parsed) :
          /\ SomeCandidate(HasAmbiguousPart, body[k]) => parsed[k].kind # "Ok"
          /\ parsed[k].kind = "Ok" =>
                \A c \in 1..Len(parsed[k].chunk.candidates) :
                    OneVariantEach(parsed[k].chunk.candidates[c])
    /\ \A k \in 1..Len(reser) :
          SomeCandidate(HasAmbiguousPart, body[k]) => ~reser[k].some

C18_Witness ==
    /\ prog = "parse_chunks" /\ pc = "panicked"
    /\ Len(body) >= 2
    /\ body[1] = ChunkMixed /\ body[2] = ChunkTwoVariants
    /\ Len(parsed) = 2
    /\ parsed[1].kind = "Ok"
    /\ parsed[1].chunk.candidates[1].content.v.parts[2].variant = "InlineData"

\* A chunk that mixes text parts with inlineData, fileData and functionCall
\* parts, the latter with the field names the enum Part declares
MixedCandidate(c) ==
    /\ HasParts(c) /\ Has(c.o["content"], "role")
    /\ \A p \in 1..Len(RawParts(c)) :
          TextOnlyPart(RawParts(c)[p]) \/ DeclaredNonTextPart(RawParts(c)[p])
    /\ \E p \in 1..Len(RawParts(c)) : TextOnlyPart(RawParts(c)[p])
    /\ \E p \in 1..Len(RawParts(c)) : DeclaredNonTextPart(RawParts(c)[p])

MixedChunk(j) == ChunkShaped(j) /\ EveryCandidate(MixedCandidate, j)

RolelessContent(c) ==
    Has(c, "content") /\ IsObject(c.o["content"]) /\ ~Has(c.o["content"], "role")

HasRolelessContent(j) == SomeCandidate(RolelessContent, j)

C20_ContentWithoutRoleRejected ==
    /\ \A k \in 1..Len(parsed) :
          HasRolelessContent(body[k]) =>
              /\ parsed[k].kind # "Ok"
              /\ (prog = "main" /\ Len(stdout) > TokensFor(k - 1)) =>
                    stdout[TokensFor(k - 1) + 1].k # "text"
    /\ \A k \in 1..Len(reser) : HasRolelessContent(body[k]) => ~reser[k].some

C20_Witness ==
    /\ prog = "main" /\ pc = "panicked"
    /\ Len(body) >= 2
    /\ body[1] = ChunkNext /\ body[2] = ChunkNoRole
    /\ Len(parsed) = 2
    /\ EmittedText = "b"

\* C13: element k + 1 is taken from the stream only after main has called
\* parse_chunk on element k and written its text.
C13_PulledElementByElement ==
    [][(prog = "main" /\ Len(chunks') > Len(chunks) /\ Len(chunks) >= 1) =>
          Len(parsed) >= Len(chunks)]_vars

\* C14: the elements taken from the stream and not yet processed by main's
\* loop are at most one.
C14_AtMostOneElementHeld ==
    prog = "main" => Len(chunks) - (i - 1) <= 1

\* Frames as the response shows them
BadFrame(fr) == fr.fault # "none"

OversizeFrame(fr) == fr.fault = "none" /\ fr.size > 1024 * 1024

WithinBound(fr) == fr.fault = "none" /\ fr.size <= 1024 * 1024

\* C15: when the bytes of an element are not JSON or the transport closes
\* inside it, that element and every later one never reach main's Vec,
\* parse_chunk is called on no element, nothing is written, and main ends
\* with Err, never with Ok(()).
C15_StreamFaultIsFailure ==
    (prog = "main" /\ FirstSuch(BadFrame, wire) # 0) =>
        /\ Len(chunks) < FirstSuch(BadFrame, wire)
        /\ parsed = <<>> /\ stdout = <<>>
        /\ pc \in {"start", "done"}
        /\ result.kind # "Ok"
        /\ pc = "done" => result = [kind |-> "Err", err |-> "stream"]

C15_Witness ==
    /\ prog = "main" /\ pc = "done" /\ result.kind = "Err"
    /\ Len(body) = 3
    /\ body[1] = ChunkFirst /\ body[2] = ChunkNext
    /\ wire[1] = PlainFrame /\ wire[2].fault = "closed" /\ wire[3] = PlainFrame

\* C16: an element of more than 1024 * 1024 bytes never reaches main's Vec
\* or parse_chunk, whole or cut, and main ends with Err; when every element
\* is sound and of at most 1024 * 1024 bytes, the stream yields them all and
\* the loop runs over exactly the elements of the array.
C16_OversizeElementIsFailure ==
    prog = "main" =>
        /\ FirstSuch(OversizeFrame, wire) # 0 =>
              /\ Len(chunks) < FirstSuch(OversizeFrame, wire)
              /\ parsed = <<>> /\ stdout = <<>>
              /\ pc \in {"start", "done"}
              /\ pc = "done" => result = [kind |-> "Err", err |-> "stream"]
        /\ (\A k \in 1..Len(wire) : WithinBound(wire[k])) =>
              /\ streamOk
              /\ ~(pc = "done" /\ result.kind = "Err" /\ parsed = <<>>)
              /\ chunks = SubSeq(body, 1, Len(chunks))
              /\ pc # "start" => chunks = body

C16_Witness ==
    /\ prog = "main" /\ pc = "done" /\ result.kind = "Err"
    /\ Len(body) = 3
    /\ body[1] = ChunkFirst /\ body[2] = ChunkNext
    /\ wire[1] = Frame(1024 * 1024, "none")
    /\ wire[2] = Frame(1024 * 1024 + 1, "none")
    /\ wire[3] = PlainFrame

\* C21: for an object with an `error` key, parse_chunk returns Err only when
\* the `error` value has code, message and status of the declared types, and
\* when it has not, parse_chunk returns neither Err nor Ok.
C21_IncompleteErrorFails ==
    \A k \in 1..Len(parsed) :
        Has(body[k], "error") =>
            /\ parsed[k].kind = "Err" => CompleteErrorDetails(body[k].o["error"])
            /\ ~CompleteErrorDetails(body[k].o["error"]) => parsed[k].kind \notin {"Ok", "Err"}

\* C22: when element f is the first Error and the elements before it are
\* Chunks, what main has written once it has handled element f is the text
\* of each earlier chunk in order, then a line break, then the notice with
\* the details of the Error, and not a character of text after the notice.
C22_ErrorNoticeOrdered ==
    (/\ prog = "main" /\ streamOk
     /\ FirstError(body) # 0 /\ Len(parsed) >= FirstError(body)) =>
        /\ \A k \in 1..(FirstError(body) - 1) :
              stdout[k] = TextToken(RawChunkText(body[k]))
        /\ stdout[FirstError(body)] = NewLine
        /\ stdout[FirstError(body) + 1] = ErrorToken(RawErrorDetails(body[FirstError(body)]))
        /\ \A t \in (FirstError(body) + 2)..Len(stdout) : TokenText(stdout[t]) = ""

\* The element with the finishReason of every candidate set to a value, and
\* with the key taken out of every candidate
WithReason(c, reason) ==
    JObj([x \in Keys(c) \cup {"finishReason"} |->
            IF x = "finishReason" THEN reason ELSE c.o[x]])

WithoutReason(c) == JObj([x \in Keys(c) \ {"finishReason"} |-> c.o[x]])

MapCandidates(F(_), j) ==
    JObj([x \in Keys(j) |->
            IF x = "candidates" THEN JArr(MapSeq(F, RawCandidates(j))) ELSE j.o[x]])

ReasonVariants(j) ==
    {MapCandidates(LAMBDA c : WithReason(c, r), j) :
        r \in {JStr("STOP"), JStr("SAFETY"), JStr("OTHER"), JNull}}
        \cup {MapCandidates(WithoutReason, j)}

HasCandidateObjects(j) == EveryCandidate(IsObject, j)

SameOutcome(a, b) ==
    /\ a.kind = b.kind
    /\ a.kind = "Ok" => ChunkText(a.chunk) = ChunkText(b.chunk)
    /\ a.kind = "Err" => a.err = b.err

\* C23: what parse_chunk returned for an element, and the text main wrote
\* for it, are what they are for the same element with any other
\* finishReason (STOP, SAFETY, another string, null) or with none; the text
\* of a chunk that decodes is the text of the candidates that have content.
C23_FinishReasonIsOpaque ==
    \A k \in 1..Len(parsed) :
        HasCandidateObjects(body[k]) =>
            /\ \A v \in ReasonVariants(body[k]) : SameOutcome(parsed[k], parse_chunk(v))
            /\ (prog = "main" /\ parsed[k].kind = "Ok") =>
                  stdout[TokensFor(k - 1) + 1] = TextToken(RawChunkText(body[k]))

C23_Witness ==
    /\ prog = "main" /\ pc = "done" /\ result = [kind |-> "Ok"]
    /\ body = <<ChunkReasonSafety, ChunkReasonOther, ChunkNoReason>>
    /\ EmittedText = "lko"

\* C24: over an array of Chunks and Errors delivered without fault, main
\* ends either completed, with Ok(()) after every element and with no Error
\* seen, or errored, with a failure and an Error seen; it ends in no other
\* way.
C24_EndsCompletedOrErrored ==
    (/\ prog = "main" /\ streamOk
     /\ \A k \in 1..Len(body) : DecodesAsChunk(body[k]) \/ DecodesAsError(body[k])) =>
        /\ pc # "panicked"
        /\ pc = "done" =>
              \/ result.kind = "Ok" /\ ~ErrorSeen /\ Len(parsed) = Len(body)
              \/ result.kind = "Err" /\ ErrorSeen

\* The element without the keys the data model does not declare, in the
\* chunk object and in every candidate, and the element with one more such
\* key in each
StripObject(j, keep) == JObj([x \in Keys(j) \cap keep |-> j.o[x]])

StripCandidate(c) == StripObject(c, CandidateKeys)

StripUnknown(j) == MapCandidates(StripCandidate, StripObject(j, ChunkKeys \cup {"error"}))

AddKey(j, key, value) ==
    JObj([x \in Keys(j) \cup {key} |-> IF x = key THEN value ELSE j.o[x]])

AddTokenCount(c) == AddKey(c, "tokenCount", JNum(7))

AddUnknown(j) == MapCandidates(AddTokenCount, AddKey(j, "modelVersion", JStr("v")))

HasUnknownKeys(j) ==
    /\ ~(Keys(j) \subseteq ChunkKeys)
    /\ \E c \in 1..Len(RawCandidates(j)) : ~(Keys(RawCandidates(j)[c]) \subseteq CandidateKeys)

\* C25: what parse_chunk returned for an element with candidates is what it
\* returns for the element without its undeclared keys and for the element
\* with further undeclared keys, in the chunk object and in the candidates;
\* a chunk with undeclared keys decodes as a Chunk and main writes its text.
C25_UnknownKeysIgnored ==
    \A k \in 1..Len(parsed) :
        HasCandidateObjects(body[k]) =>
            /\ parsed[k] = parse_chunk(StripUnknown(body[k]))
            /\ parsed[k] = parse_chunk(AddUnknown(body[k]))
            /\ (ChunkShaped(body[k]) /\ HasUnknownKeys(body[k])) =>
                  /\ parsed[k].kind = "Ok"
                  /\ prog = "main" =>
                        stdout[TokensFor(k - 1) + 1] = TextToken(RawChunkText(body[k]))

C25_Witness ==
    /\ prog = "main" /\ pc = "done" /\ result = [kind |-> "Ok"]
    /\ body = <<ChunkNext, ChunkFirst>>
    /\ HasUnknownKeys(body[2])
    /\ StripUnknown(body[2]) # body[2]
    /\ EmittedText = "ba"

\* C26: main calls parse_chunk and writes only once the stream has ended
\* and every element of the array is in the Vec; when the stream yields an
\* error for any element, main calls parse_chunk on nothing, writes nothing,
\* not even for the elements before that one, and returns the error.
C26_NothingWrittenUnlessCollected ==
    prog = "main" =>
        /\ (stdout # <<>> \/ parsed # <<>>) =>
              streamOk /\ pc # "start" /\ chunks = body
        /\ ~streamOk =>
              /\ stdout = <<>> /\ parsed = <<>>
              /\ pc \in {"start", "done"}
              /\ pc = "done" => result = [kind |-> "Err", err |-> "stream"]

C26_Witness ==
    /\ prog = "main" /\ pc = "done" /\ result.kind = "Err"
    /\ body = <<ChunkFirst, ChunkNext, ChunkNext>>
    /\ wire[1] = PlainFrame /\ wire[2] = PlainFrame /\ wire[3].fault = "malformed"
    /\ stdout = <<>>

\* A chunk without candidates, or whose candidates all have a content with
\* no parts or with empty text parts only
EmptyContentCandidate(c) ==
    /\ WellFormedCandidate(c) /\ HasParts(c)
    /\ \A p \in 1..Len(RawParts(c)) : RawParts(c)[p] = JObj([text |-> JStr("")])

ZeroChunk(j) == ChunkShaped(j) /\ EveryCandidate(EmptyContentCandidate, j)

\* C27: a chunk with no candidates, or with contents of no parts or of empty
\* text only, decodes as a Chunk; main writes the empty string for it and
\* goes on: the next element is classified and its text written, and over
\* an array of Chunks main returns Ok(()) with the text of every element.
C27_EmptyChunkAddsNothing ==
    /\ \A k \in 1..Len(parsed) :
          ZeroChunk(body[k]) =>
              /\ parsed[k].kind = "Ok"
              /\ prog = "main" =>
                    /\ stdout[TokensFor(k - 1) + 1] = TextToken("")
                    /\ Len(parsed) = k => (i = k + 1 /\ pc \in {"loop", "done"})
                    /\ (Len(parsed) > k /\ parsed[k + 1].kind = "Ok") =>
                          stdout[TokensFor(k) + 1] = TextToken(RawChunkText(body[k + 1]))
    /\ \A k \in 1..Len(reser) : ZeroChunk(body[k]) => reser[k].some
    /\ (/\ prog = "main" /\ streamOk /\ AllChunks(body)
        /\ \E k \in 1..Len(body) : ZeroChunk(body[k])) =>
            /\ pc # "panicked"
            /\ pc = "done" => /\ result = [kind |-> "Ok"]
                              /\ EmittedText = RawTextUpTo(body, Len(body))

C27_Witness ==
    /\ prog = "main" /\ pc = "done" /\ result = [kind |-> "Ok"]
    /\ body = <<ChunkEmptyParts, ChunkEmptyText, ChunkNext>>
    /\ stdout = <<TextToken(""), TextToken(""), TextToken("b"), NewLine>>

\* A usageMetadata object without promptTokenCount or without totalTokenCount
UsageLacksCount(j) ==
    /\ Has(j, "usageMetadata") /\ IsObject(j.o["usageMetadata"])
    /\ \/ ~Has(j.o["usageMetadata"], "promptTokenCount")
       \/ ~Has(j.o["usageMetadata"], "totalTokenCount")

UsageLacksCandidatesCountOnly(j) ==
    /\ Has(j, "usageMetadata") /\ IsObject(j.o["usageMetadata"])
    /\ Keys(j.o["usageMetadata"]) = {"promptTokenCount", "totalTokenCount"}

\* C28: a chunk without usageMetadata, or with a usageMetadata that lacks
\* candidatesTokenCount only, decodes as a Chunk; an element whose
\* usageMetadata lacks promptTokenCount or totalTokenCount is not returned as
\* a Chunk by parse_chunk, does not decode as a
\* GenerateContentResponseChunk, and main writes no text for it.
C28_UsageMetadataAllOrNothing ==
    /\ \A k \in 1..Len(parsed) :
          /\ UsageLacksCount(body[k]) =>
                /\ parsed[k].kind # "Ok"
                /\ (prog = "main" /\ Len(stdout) > TokensFor(k - 1)) =>
                      stdout[TokensFor(k - 1) + 1].k # "text"
          /\ (/\ ChunkShaped(body[k])
              /\ ~Has(body[k], "usageMetadata") \/ UsageLacksCandidatesCountOnly(body[k])) =>
                parsed[k].kind = "Ok"
    /\ \A k \in 1..Len(reser) :
          /\ UsageLacksCount(body[k]) => ~reser[k].some
          /\ (ChunkShaped(body[k]) /\ UsageLacksCandidatesCountOnly(body[k])) =>
                /\ reser[k].some
                /\ reser[k].v.o["usageMetadata"].o["candidatesTokenCount"] = JNull

C28_Witness ==
    /\ prog = "main" /\ pc = "panicked"
    /\ body = <<ChunkNext, ChunkUsageNoCandidatesCount, ChunkUsageNoTotal>>
    /\ Len(parsed) = 3
    /\ EmittedText = "bz"

====
